---------------------------- MODULE Spec2Model ----------------------------
(***************************************************************************)
(* A model of disk-monitor (src/main.go): the parallel probe of the drives *)
(* (getDiskSpace, getAllDisksInfo), the history store (loadHistory,        *)
(* saveHistory), the CLI cycle (collectAndSave), the dashboard model       *)
(* (NewModel, Model.Update, updateChart) and the chart's label track       *)
(* (renderChartView).                                                      *)
(***************************************************************************)
EXTENDS Integers, Sequences, FiniteSets, TLC

\* ------------------------------------------------------------------ bounds

\* Drives are named by their index i of getAvailableDrives' loop ('A'+i).
MaxDrives == 2
\* The byte counts the probe primitive reports (a sample of the uint64s).
ByteCounts == {0, 1}
\* Width of the unsigned integers of the model; the program's are 64 bits
\* wide, the arithmetic (total - free, wrapping) is the same at any width.
WordBits == 3

Modulus == 2 ^ WordBits

VARIABLES
    \* ---- getAllDisksInfo / getDiskSpace
    drives,      \* the list getAvailableDrives returned
    probePc,     \* per drive: the goroutine started by getDiskSpace
    result,      \* per drive: getDiskSpace's local  result    (*DiskInfo)
    resultErr,   \* per drive: getDiskSpace's local  resultErr (error)
    workerPc,    \* per drive: the goroutine started by getAllDisksInfo
    ret,         \* per drive: what getDiskSpace returned (info, err)
    results,     \* channel results (buffered, cap len(drives))
    errors,      \* channel errors  (buffered, cap len(drives))
    collPc,      \* the collecting loop of getAllDisksInfo
    collIter,    \* iterations of the collecting loop completed
    collInfo,    \* the loop's local info, between the two receives
    disks,       \* the slice getAllDisksInfo builds and returns
    stderr,      \* the errors printed to os.Stderr, in order
    \* ---- the history store, the CLI and the dashboard
    file,        \* the history file: [exists, readable, data]
    now,         \* time.Now(), in hours
    dashPc,      \* the dashboard process: off, running, panicked, quit
    m,           \* the dashboard's Model
    inFlight,    \* collectDataCmd commands started and not yet delivered
    cliExit,     \* exit code of the last CLI run (-1: none yet)
    \* ---- one CLI cycle, step by step (saveHistory's os.WriteFile)
    cliPc,       \* where collectAndSave is
    cliDisks,    \* its local  disks
    cliHistory,  \* its local  history (*HistoryData)
    cliData,     \* saveHistory's local  data
    fileBefore,  \* the file when the cycle started
    \* ---- renderChartView
    dataPoints,  \* its local  dataPoints
    timeLabels,  \* its local  timeLabels
    stats,       \* the caption's numbers and the "Stats for period" block
    bytesArg,    \* formatBytes' argument bytes
    formatted,   \* formatBytes' result
    rendered     \* whether the chart of the current model has been rendered

probeVars == <<drives, probePc, result, resultErr, workerPc, ret, results,
               errors, collPc, collIter, collInfo, disks, stderr>>
appVars == <<dashPc, m, inFlight, cliExit>>
stepVars == <<cliPc, cliDisks, cliHistory, cliData, fileBefore>>
chartVars == <<dataPoints, timeLabels, stats, bytesArg, formatted, rendered>>

vars == <<probeVars, file, now, appVars, stepVars, chartVars>>

\* ------------------------------------------------------------ Go values

\* A nil pointer / nil error, and the non-nil ones.
NilPtr == [nil |-> TRUE]
Ptr(v) == [nil |-> FALSE, val |-> v]
NoErr == [nil |-> TRUE]
Err(kind, d) == [nil |-> FALSE, kind |-> kind, drive |-> d]

\* uint64 subtraction wraps around.
SubWrap(a, b) == (a - b + Modulus) % Modulus

\* The DiskInfo getDiskSpace builds from the primitive's outputs.
MakeDiskInfo(d, total, free) ==
    [Drive |-> d, TotalSpace |-> total, FreeSpace |-> free,
     UsedSpace |-> SubWrap(total, free)]

Range(s) == {s[i] : i \in 1..Len(s)}

\* getAvailableDrives: the drives in letter order; which letters exist is
\* the system's choice.
DriveLists == {[i \in 1..n |-> i] : n \in 0..MaxDrives}

\* ------------------------------------------- getDiskSpace, getAllDisksInfo

ProbeInit ==
    /\ drives \in DriveLists
    /\ probePc = [d \in Range(drives) |-> "call"]
    /\ result = [d \in Range(drives) |-> NilPtr]
    /\ resultErr = [d \in Range(drives) |-> NoErr]
    /\ workerPc = [d \in Range(drives) |-> "select"]
    /\ ret = [d \in Range(drives) |-> [info |-> NilPtr, err |-> NoErr]]
    /\ results = <<>>
    /\ errors = <<>>
    /\ collPc = "recvResults"
    /\ collIter = 0
    /\ collInfo = NilPtr
    /\ disks = <<>>
    /\ stderr = <<>>

\* The goroutine of getDiskSpace: GetDiskFreeSpaceExW returns 0 (failure).
PrimFails(d) ==
    /\ probePc[d] = "call"
    /\ resultErr' = [resultErr EXCEPT ![d] = Err("probe", d)]
    /\ probePc' = [probePc EXCEPT ![d] = "send"]
    /\ UNCHANGED <<drives, result, workerPc, ret, results, errors, collPc,
                   collIter, collInfo, disks, stderr>>
    /\ UNCHANGED <<file, now, appVars, stepVars, chartVars>>

\* GetDiskFreeSpaceExW returns non-zero with the byte counts it wrote.
PrimSucceeds(d) ==
    /\ probePc[d] = "call"
    /\ \E total \in ByteCounts, free \in ByteCounts :
          result' = [result EXCEPT ![d] = Ptr(MakeDiskInfo(d, total, free))]
    /\ probePc' = [probePc EXCEPT ![d] = "send"]
    /\ UNCHANGED <<drives, resultErr, workerPc, ret, results, errors, collPc,
                   collIter, collInfo, disks, stderr>>
    /\ UNCHANGED <<file, now, appVars, stepVars, chartVars>>

\* select, case <-done: the unbuffered send and the receive meet.
SelectDone(d) ==
    /\ workerPc[d] = "select"
    /\ probePc[d] = "send"
    /\ probePc' = [probePc EXCEPT ![d] = "exit"]
    /\ ret' = [ret EXCEPT ![d] = [info |-> result[d], err |-> resultErr[d]]]
    /\ workerPc' = [workerPc EXCEPT ![d] = "sendFirst"]
    /\ UNCHANGED <<drives, result, resultErr, results, errors, collPc,
                   collIter, collInfo, disks, stderr>>
    /\ UNCHANGED <<file, now, appVars, stepVars, chartVars>>

\* select, case <-time.After(2 * time.Second).
SelectTimeoutRacy(d) ==
    /\ workerPc[d] = "select"
    /\ ret' = [ret EXCEPT ![d] =
                 IF probePc[d] = "send"
                 THEN [info |-> result[d], err |-> resultErr[d]]
                 ELSE [info |-> NilPtr, err |-> Err("timeout", d)]]
    /\ workerPc' = [workerPc EXCEPT ![d] = "sendFirst"]
    /\ UNCHANGED <<drives, probePc, result, resultErr, results, errors,
                   collPc, collIter, collInfo, disks, stderr>>
    /\ UNCHANGED <<file, now, appVars, stepVars, chartVars>>
SelectTimeout(d) ==
    /\ workerPc[d] = "select"
    /\ ret' = [ret EXCEPT ![d] = [info |-> NilPtr, err |-> Err("timeout", d)]]
    /\ workerPc' = [workerPc EXCEPT ![d] = "sendFirst"]
    /\ UNCHANGED <<drives, probePc, result, resultErr, results, errors,
                   collPc, collIter, collInfo, disks, stderr>>
    /\ UNCHANGED <<file, now, appVars, stepVars, chartVars>>

\* A send on a channel made with capacity len(drives) goes through when the
\* buffer has room, and blocks otherwise.
HasRoom(ch) == Len(ch) < Len(drives)

\* The worker's first send: errors <- err, or results <- info.
WorkerSendFirst(d) ==
    /\ workerPc[d] = "sendFirst"
    /\ IF ~ret[d].err.nil
          THEN /\ HasRoom(errors)
               /\ errors' = Append(errors, ret[d].err)
               /\ UNCHANGED results
          ELSE /\ HasRoom(results)
               /\ results' = Append(results, ret[d].info)
               /\ UNCHANGED errors
    /\ workerPc' = [workerPc EXCEPT ![d] = "sendSecond"]
    /\ UNCHANGED <<drives, probePc, result, resultErr, ret, collPc, collIter,
                   collInfo, disks, stderr>>
    /\ UNCHANGED <<file, now, appVars, stepVars, chartVars>>

\* The worker's second send: results <- nil, or errors <- nil.
WorkerSendSecondSkipped(d) ==
    /\ workerPc[d] = "sendSecond"
    /\ workerPc' = [workerPc EXCEPT ![d] = "done"]
    /\ UNCHANGED <<drives, probePc, result, resultErr, ret, results, errors,
                   collPc, collIter, collInfo, disks, stderr>>
    /\ UNCHANGED <<file, now, appVars, stepVars, chartVars>>
WorkerSendSecond(d) ==
    /\ workerPc[d] = "sendSecond"
    /\ IF ~ret[d].err.nil
          THEN /\ HasRoom(results)
               /\ results' = Append(results, NilPtr)
               /\ UNCHANGED errors
          ELSE /\ HasRoom(errors)
               /\ errors' = Append(errors, NoErr)
               /\ UNCHANGED results
    /\ workerPc' = [workerPc EXCEPT ![d] = "done"]
    /\ UNCHANGED <<drives, probePc, result, resultErr, ret, collPc, collIter,
                   collInfo, disks, stderr>>
    /\ UNCHANGED <<file, now, appVars, stepVars, chartVars>>

\* The collecting loop: info := <-results.
CollectRecvResults ==
    /\ collPc = "recvResults"
    /\ collIter < Len(drives)
    /\ results # <<>>
    /\ collInfo' = Head(results)
    /\ results' = Tail(results)
    /\ collPc' = "recvErrors"
    /\ UNCHANGED <<drives, probePc, result, resultErr, workerPc, ret, errors,
                   collIter, disks, stderr>>
    /\ UNCHANGED <<file, now, appVars, stepVars, chartVars>>

\* if err != nil { fmt.Fprintf(os.Stderr, "Error: %v\n", err) ... }
LogErrorAlways(log, err) == Append(log, err)
LogError(log, err) == IF ~err.nil THEN Append(log, err) ELSE log

\* The body of the loop after err := <-errors, on the pair it received.
CollectAppend(ds, info, err) ==
    IF ~err.nil THEN ds
    ELSE IF ~info.nil THEN Append(ds, info.val) ELSE ds

\* The collecting loop: err := <-errors and the rest of the iteration.
CollectRecvErrors ==
    /\ collPc = "recvErrors"
    /\ errors # <<>>
    /\ LET err == Head(errors) IN
          /\ stderr' = LogError(stderr, err)
          /\ disks' = CollectAppend(disks, collInfo, err)
    /\ errors' = Tail(errors)
    /\ collInfo' = NilPtr
    /\ collIter' = collIter + 1
    /\ collPc' = "recvResults"
    /\ UNCHANGED <<drives, probePc, result, resultErr, workerPc, ret,
                   results>>
    /\ UNCHANGED <<file, now, appVars, stepVars, chartVars>>

\* The loop is over: return disks.
CollectReturn ==
    /\ collPc = "recvResults"
    /\ collIter = Len(drives)
    /\ collPc' = "returned"
    /\ UNCHANGED <<drives, probePc, result, resultErr, workerPc, ret, results,
                   errors, collIter, collInfo, disks, stderr>>
    /\ UNCHANGED <<file, now, appVars, stepVars, chartVars>>

ProbeNext ==
    \/ \E d \in Range(drives) : PrimFails(d)
    \/ \E d \in Range(drives) : PrimSucceeds(d)
    \/ \E d \in Range(drives) : SelectDone(d)
    \/ \E d \in Range(drives) : SelectTimeout(d)
    \/ \E d \in Range(drives) : WorkerSendFirst(d)
    \/ \E d \in Range(drives) : WorkerSendSecond(d)
    \/ CollectRecvResults
    \/ CollectRecvErrors
    \/ CollectReturn

\* The other parts of the program at rest.
ProbeIdle ==
    /\ drives = <<>>
    /\ probePc = <<>>
    /\ result = <<>>
    /\ resultErr = <<>>
    /\ workerPc = <<>>
    /\ ret = <<>>
    /\ results = <<>>
    /\ errors = <<>>
    /\ collPc = "returned"
    /\ collIter = 0
    /\ collInfo = NilPtr
    /\ disks = <<>>
    /\ stderr = <<>>

\* --------------------------------------------------------------- the store

\* The bytes of the history file, as the tokens of the JSON document:
\* the opening of {"snapshots": [, one token per snapshot, the closing ]}.
OpenTok == [kind |-> "open"]
CloseTok == [kind |-> "close"]
SnapTok(s) == [kind |-> "snap", snap |-> s]

HoursPerDay == 24

\* time.Time's MarshalJSON / UnmarshalJSON: the RFC 3339 text, a date and a
\* time of day, of the instant (the monotonic reading is not written).
EncodeTime(t) == [date |-> t \div HoursPerDay, clock |-> t % HoursPerDay]
DecodeTime(j) == j.date * HoursPerDay + j.clock

\* A DiskInfo as the JSON object of its tags, and back.
EncodeDiskUsedAsFree(d) ==
    [drive |-> d.Drive, total_space |-> d.TotalSpace,
     free_space |-> d.UsedSpace, used_space |-> d.UsedSpace]
EncodeDisk(d) ==
    [drive |-> d.Drive, total_space |-> d.TotalSpace,
     free_space |-> d.FreeSpace, used_space |-> d.UsedSpace]
DecodeDisk(j) ==
    [Drive |-> j.drive, TotalSpace |-> j.total_space,
     FreeSpace |-> j.free_space, UsedSpace |-> j.used_space]

\* A Snapshot as the JSON object of its tags, and back.
EncodeSnapshot(s) ==
    [timestamp |-> EncodeTime(s.Timestamp),
     disks |-> [i \in 1..Len(s.Disks) |-> EncodeDisk(s.Disks[i])]]
DecodeSnapshot(j) ==
    [Timestamp |-> DecodeTime(j.timestamp),
     Disks |-> [i \in 1..Len(j.disks) |-> DecodeDisk(j.disks[i])]]

\* json.MarshalIndent(history, "", "  ")
Marshal(snaps) ==
    <<OpenTok>>
    \o [i \in 1..Len(snaps) |-> SnapTok(EncodeSnapshot(snaps[i]))]
    \o <<CloseTok>>

\* json.Unmarshal(data, &history): an error unless data is one whole document.
Unmarshal(data) ==
    IF /\ Len(data) >= 2
       /\ data[1] = OpenTok
       /\ data[Len(data)] = CloseTok
       /\ \A i \in 2..(Len(data) - 1) : data[i].kind = "snap"
    THEN [err |-> FALSE,
          snaps |-> [i \in 1..(Len(data) - 2) |->
                       DecodeSnapshot(data[i + 1].snap)]]
    ELSE [err |-> TRUE, snaps |-> <<>>]

AbsentFile == [exists |-> FALSE, readable |-> TRUE, data |-> <<>>]
FileOf(data) == [exists |-> TRUE, readable |-> TRUE, data |-> data]

\* loadHistory: (history, err).
loadHistoryLenient(f) ==
    IF ~f.exists \/ ~f.readable \/ Unmarshal(f.data).err
    THEN [history |-> Ptr(<<>>), err |-> NoErr]
    ELSE [history |-> Ptr(Unmarshal(f.data).snaps), err |-> NoErr]
loadHistory(f) ==
    IF ~f.exists THEN [history |-> Ptr(<<>>), err |-> NoErr]
    ELSE IF ~f.readable THEN [history |-> NilPtr, err |-> Err("read", 0)]
    ELSE IF Unmarshal(f.data).err
         THEN [history |-> NilPtr, err |-> Err("parse", 0)]
         ELSE [history |-> Ptr(Unmarshal(f.data).snaps), err |-> NoErr]

\* saveHistory: os.WriteFile opens the file truncating it, writes data and
\* closes it. Its outcomes: written in full; the open failed; a write failed
\* after k tokens.
saveHistory(f, snaps) ==
    LET data == Marshal(snaps) IN
       {[file |-> [f EXCEPT !.exists = TRUE, !.data = data], err |-> NoErr]}
       \cup {[file |-> f, err |-> Err("open", 0)]}
       \cup {[file |-> [f EXCEPT !.exists = TRUE, !.data = SubSeq(data, 1, k)],
              err |-> Err("write", 0)] : k \in 0..(Len(data) - 1)}

\* Snapshot{Timestamp: time.Now(), Disks: disks}
MakeSnapshot(t, ds) == [Timestamp |-> t, Disks |-> ds]

\* history.Snapshots = append(history.Snapshots, snapshot)
AppendSnapshotOnly(snaps, s) == <<s>>
AppendSnapshot(snaps, s) == Append(snaps, s)

\* ------------------------------------------------- the dashboard, the CLI

\* Captures that take a timestamp, over all processes.
MaxCaptures == 2

GiB == 1024 * 1024 * 1024
\* float64(disk.FreeSpace) / 1024 / 1024 / 1024, as a fraction.
ToGB(bytes) == [num |-> bytes, den |-> GiB]

Injective(s) == \A i, j \in 1..Len(s) : i # j => s[i] # s[j]

\* The drives of the system the dashboard and the CLI run on.
AppDrives == {1, 2}
\* What getAllDisksInfo can return there: the DiskInfo of any of the
\* drives, in the order the collecting loop met them.
AppDisk(d) == MakeDiskInfo(d, 1, 0)
CaptureResults ==
    {[i \in 1..Len(s) |-> AppDisk(s[i])] :
        s \in {q \in UNION {[1..n -> AppDrives] :
                                n \in 0..Cardinality(AppDrives)} :
                  Injective(q)}}

NoDrivesFound == Err("no drives found", 0)

\* len(disks) == 0, the test before a snapshot is made of disks.
NoDrivesNever(ds) == FALSE
NoDrives(ds) == Len(ds) = 0

ZeroModel ==
    [history |-> NilPtr, graphs |-> <<>>, currentView |-> "",
     selectedDisk |-> 0, width |-> 0, height |-> 0, err |-> NoErr,
     loading |-> FALSE, status |-> ""]

WindowSizes == {<<80, 24>>}

\* The history files a run can find: none, written by earlier runs, cut
\* short by a crashed write, unreadable.
OldSnapshot == MakeSnapshot(0, <<AppDisk(1)>>)
InitialFiles ==
    {AbsentFile, FileOf(Marshal(<<>>)), FileOf(Marshal(<<OldSnapshot>>)),
     FileOf(<<OpenTok, SnapTok(EncodeSnapshot(OldSnapshot))>>),
     [FileOf(Marshal(<<OldSnapshot>>)) EXCEPT !.readable = FALSE]}

AppIdle ==
    /\ dashPc = "off"
    /\ m = ZeroModel
    /\ inFlight = 0
    /\ cliExit = -1

\* The index of the first disk of the snapshot with that drive, 0 if none
\* (the inner loops of updateChart and renderChartView, with their break).
FirstDiskHeadOnly(snapshot, drive) ==
    IF Len(snapshot.Disks) > 0 /\ snapshot.Disks[1].Drive = drive
    THEN 1 ELSE 0
FirstDisk(snapshot, drive) ==
    LET hits == {i \in 1..Len(snapshot.Disks) :
                    snapshot.Disks[i].Drive = drive} IN
       IF hits = {} THEN 0 ELSE CHOOSE i \in hits : \A j \in hits : i <= j

\* updateChart's data of one drive.
RECURSIVE DriveSeries(_, _)
DriveSeries(snaps, drive) ==
    IF snaps = <<>> THEN <<>>
    ELSE LET k == FirstDisk(Head(snaps), drive)
             rest == DriveSeries(Tail(snaps), drive) IN
            IF k = 0 THEN rest
            ELSE <<ToGB(Head(snaps).Disks[k].FreeSpace)>> \o rest

\* updateChart: a nil m.history panics at len(m.history.Snapshots).
updateChartFromOne(mm) ==
    IF mm.history.nil THEN [panic |-> TRUE, m |-> mm]
    ELSE IF Len(mm.history.val) < 1 THEN [panic |-> FALSE, m |-> mm]
    ELSE LET snaps == mm.history.val
             driveMap == UNION {{snaps[i].Disks[j].Drive :
                                   j \in 1..Len(snaps[i].Disks)} :
                                i \in 1..Len(snaps)} IN
            [panic |-> FALSE,
             m |-> [mm EXCEPT !.graphs =
                       [drive \in driveMap |-> DriveSeries(snaps, drive)]]]
updateChart(mm) ==
    IF mm.history.nil THEN [panic |-> TRUE, m |-> mm]
    ELSE IF Len(mm.history.val) < 2 THEN [panic |-> FALSE, m |-> mm]
    ELSE LET snaps == mm.history.val
             driveMap == UNION {{snaps[i].Disks[j].Drive :
                                   j \in 1..Len(snaps[i].Disks)} :
                                i \in 1..Len(snaps)} IN
            [panic |-> FALSE,
             m |-> [mm EXCEPT !.graphs =
                       [drive \in driveMap |-> DriveSeries(snaps, drive)]]]

\* The end of a handler that calls m.updateChart() on mm and returns m.
UpdateChartAndReturn(mm) ==
    /\ m' = updateChart(mm).m
    /\ dashPc' = IF updateChart(mm).panic THEN "panicked" ELSE dashPc

\* NewModel, and Init's batch: tea.WindowSize() and collectDataCmd.
NewModel ==
    /\ dashPc = "off"
    /\ m' = [ZeroModel EXCEPT !.history = loadHistory(file).history,
                              !.currentView = "current",
                              !.loading = TRUE,
                              !.status = "Loading data..."]
    /\ dashPc' = "running"
    /\ inFlight' = 1
    /\ UNCHANGED <<file, now, cliExit>>
    /\ UNCHANGED <<probeVars, stepVars, chartVars>>

\* Update, tea.KeyMsg "ctrl+c", "q", "esc": tea.Quit ends p.Run and main
\* returns; the process's model and its running commands are gone.
KeyQuit ==
    /\ dashPc = "running"
    /\ dashPc' = "quit"
    /\ m' = ZeroModel
    /\ inFlight' = 0
    /\ UNCHANGED <<file, now, cliExit>>
    /\ UNCHANGED <<probeVars, stepVars, chartVars>>

\* Update, tea.KeyMsg "tab".
KeyTab ==
    /\ dashPc = "running"
    /\ IF m.loading THEN UNCHANGED <<m, dashPc>>
       ELSE UpdateChartAndReturn(
               [m EXCEPT !.currentView =
                   IF m.currentView = "chart" THEN "current" ELSE "chart"])
    /\ UNCHANGED <<file, now, inFlight, cliExit>>
    /\ UNCHANGED <<probeVars, stepVars, chartVars>>

\* Update, tea.KeyMsg "up", "k".
KeyUp ==
    /\ dashPc = "running"
    /\ IF m.loading \/ ~(m.selectedDisk > 0) THEN UNCHANGED <<m, dashPc>>
       ELSE UpdateChartAndReturn(
               [m EXCEPT !.selectedDisk = m.selectedDisk - 1])
    /\ UNCHANGED <<file, now, inFlight, cliExit>>
    /\ UNCHANGED <<probeVars, stepVars, chartVars>>

\* Update, tea.KeyMsg "down", "j"; n is len(getAvailableDrives()).
KeyDown ==
    /\ dashPc = "running"
    /\ IF m.loading THEN UNCHANGED <<m, dashPc>>
       ELSE \E n \in 0..Cardinality(AppDrives) :
               IF ~(m.selectedDisk < n - 1)
               THEN UNCHANGED <<m, dashPc>>
               ELSE UpdateChartAndReturn(
                       [m EXCEPT !.selectedDisk = m.selectedDisk + 1])
    /\ UNCHANGED <<file, now, inFlight, cliExit>>
    /\ UNCHANGED <<probeVars, stepVars, chartVars>>

\* Update, tea.KeyMsg "r".
KeyR ==
    /\ dashPc = "running"
    /\ IF m.loading THEN UNCHANGED <<m, inFlight>>
       ELSE /\ m' = [m EXCEPT !.loading = TRUE,
                              !.status = "Refreshing data..."]
            /\ inFlight' = inFlight + 1
    /\ UNCHANGED <<file, now, dashPc, cliExit>>
    /\ UNCHANGED <<probeVars, stepVars, chartVars>>

\* Update, tea.WindowSizeMsg.
WindowSizeMsg ==
    /\ dashPc = "running"
    /\ \E size \in WindowSizes :
          LET mm == [m EXCEPT !.width = size[1], !.height = size[2]] IN
             IF ~m.loading THEN UpdateChartAndReturn(mm)
             ELSE m' = mm /\ UNCHANGED dashPc
    /\ UNCHANGED <<file, now, inFlight, cliExit>>
    /\ UNCHANGED <<probeVars, stepVars, chartVars>>

\* Update, diskInfoMsg with disks, from the append to just before
\* m.updateChart(): the model holding snaps after saveHistory returned err.
CapturedErrorCleared(mm, snaps, err) ==
    [mm EXCEPT !.history = Ptr(snaps), !.err = err, !.loading = FALSE,
               !.status = ""]
CapturedErrorDropped(mm, snaps, err) ==
    [mm EXCEPT !.history = Ptr(snaps), !.loading = FALSE, !.status = ""]
Captured(mm, snaps, err) ==
    [mm EXCEPT !.history = Ptr(snaps),
               !.err = IF err.nil THEN mm.err ELSE err,
               !.loading = FALSE,
               !.status = ""]

\* Update, diskInfoMsg: the message of a collectDataCmd that has finished.
DiskInfoMsg ==
    /\ dashPc = "running"
    /\ inFlight > 0
    /\ inFlight' = inFlight - 1
    /\ \E ds \in CaptureResults :
          /\ ds # <<>> => now <= MaxCaptures
          /\ IF NoDrives(ds)
             THEN /\ m' = [m EXCEPT !.err = NoDrivesFound, !.loading = FALSE]
                  /\ UNCHANGED <<file, now, dashPc>>
             ELSE IF m.history.nil
             THEN \* m.history.Snapshots on a nil m.history
                  /\ dashPc' = "panicked"
                  /\ now' = now + 1
                  /\ UNCHANGED <<file, m>>
             ELSE LET snapshot == MakeSnapshot(now, ds)
                      snaps == AppendSnapshot(m.history.val, snapshot) IN
                     \E out \in saveHistory(file, snaps) :
                        /\ file' = out.file
                        /\ now' = now + 1
                        /\ UpdateChartAndReturn(Captured(m, snaps, out.err))
    /\ UNCHANGED cliExit
    /\ UNCHANGED <<probeVars, stepVars, chartVars>>

\* View: whether the frame of mm has the line "Error: ..." (a loading model
\* is drawn as its status alone).
ViewShowsError(mm) == IF mm.loading THEN FALSE ELSE ~mm.err.nil

\* View, called by the framework to draw the model; ds is what
\* renderCurrentView's own getAllDisksInfo returns. It changes nothing, and
\* panics where it reads m.history.Snapshots of a nil m.history.
View ==
    /\ dashPc = "running"
    /\ IF m.loading \/ m.currentView # "current"
       THEN dashPc' = IF ~m.loading /\ m.currentView = "chart"
                         /\ m.history.nil
                      THEN "panicked" ELSE dashPc
       ELSE \E ds \in CaptureResults :
               dashPc' = IF ds # <<>> /\ m.history.nil
                         THEN "panicked" ELSE dashPc
    /\ UNCHANGED <<file, now, m, inFlight, cliExit>>
    /\ UNCHANGED <<probeVars, stepVars, chartVars>>

\* Model.collectData on mm with the file f, when getAllDisksInfo returns ds
\* at time t and saveHistory ends as out (no caller in the program).
collectData(mm, f, ds, t, out) ==
    IF NoDrives(ds) THEN [m |-> [mm EXCEPT !.err = NoDrivesFound], file |-> f,
                       panic |-> FALSE]
    ELSE IF mm.history.nil THEN [m |-> mm, file |-> f, panic |-> TRUE]
    ELSE [m |-> [mm EXCEPT !.history = Ptr(AppendSnapshot(mm.history.val,
                                                MakeSnapshot(t, ds))),
                           !.err = IF out.err.nil THEN mm.err ELSE out.err],
          file |-> out.file, panic |-> FALSE]

\* One run of the program without -graph: collectAndSave, and main's exit.
CollectAndSave ==
    /\ \E ds \in CaptureResults :
          /\ ds # <<>> => now <= MaxCaptures
          /\ IF NoDrives(ds)
             THEN cliExit' = 1 /\ UNCHANGED <<file, now>>
             ELSE /\ now' = now + 1
                  /\ IF ~loadHistory(file).err.nil
                     THEN cliExit' = 1 /\ UNCHANGED file
                     ELSE \E out \in saveHistory(file,
                                AppendSnapshot(loadHistory(file).history.val,
                                               MakeSnapshot(now, ds))) :
                             /\ file' = out.file
                             /\ cliExit' = IF out.err.nil THEN 0 ELSE 1
    /\ UNCHANGED <<dashPc, m, inFlight>>
    /\ UNCHANGED <<probeVars, stepVars, chartVars>>

\* ------------------------------------- one CLI cycle, system call by call

StepIdle ==
    /\ cliPc = "off"
    /\ cliDisks = <<>>
    /\ cliHistory = NilPtr
    /\ cliData = <<>>
    /\ fileBefore = AbsentFile

\* collectAndSave: disks := getAllDisksInfo(), and the snapshot's time.Now().
CliCapture ==
    /\ cliPc = "start"
    /\ \E ds \in CaptureResults :
          /\ cliDisks' = ds
          /\ IF NoDrives(ds) THEN cliPc' = "exit1" /\ UNCHANGED now
             ELSE cliPc' = "captured" /\ now' = now + 1
    /\ UNCHANGED <<file, cliHistory, cliData, fileBefore>>
    /\ UNCHANGED <<probeVars, appVars, chartVars>>

\* collectAndSave: loadHistory, the append, and saveHistory's MarshalIndent.
CliLoad ==
    /\ cliPc = "captured"
    /\ IF ~loadHistory(file).err.nil
       THEN cliPc' = "exit1" /\ UNCHANGED <<cliHistory, cliData>>
       ELSE LET snaps == AppendSnapshot(loadHistory(file).history.val,
                                        MakeSnapshot(now - 1, cliDisks)) IN
               /\ cliHistory' = Ptr(snaps)
               /\ cliData' = Marshal(snaps)
               /\ cliPc' = "marshalled"
    /\ UNCHANGED <<file, now, cliDisks, fileBefore>>
    /\ UNCHANGED <<probeVars, appVars, chartVars>>

\* os.WriteFile: OpenFile(name, O_WRONLY|O_CREATE|O_TRUNC, perm).
WriteFileOpen ==
    /\ cliPc = "marshalled"
    /\ \/ /\ cliPc' = "opened"
          /\ file' = [file EXCEPT !.exists = TRUE, !.data = <<>>]
       \/ cliPc' = "exit1" /\ UNCHANGED file
    /\ UNCHANGED <<now, cliDisks, cliHistory, cliData, fileBefore>>
    /\ UNCHANGED <<probeVars, appVars, chartVars>>

\* os.WriteFile: f.Write(data); each write call takes some of what is left,
\* or fails.
WriteFileWrite ==
    /\ cliPc = "opened"
    /\ Len(file.data) < Len(cliData)
    /\ \/ \E k \in (Len(file.data) + 1)..Len(cliData) :
             /\ file' = [file EXCEPT !.data = SubSeq(cliData, 1, k)]
             /\ UNCHANGED cliPc
       \/ cliPc' = "exit1" /\ UNCHANGED file
    /\ UNCHANGED <<now, cliDisks, cliHistory, cliData, fileBefore>>
    /\ UNCHANGED <<probeVars, appVars, chartVars>>

\* os.WriteFile: f.Close(); then collectAndSave prints and main returns.
WriteFileClose ==
    /\ cliPc = "opened"
    /\ Len(file.data) = Len(cliData)
    /\ cliPc' = "exit0"
    /\ UNCHANGED <<file, now, cliDisks, cliHistory, cliData, fileBefore>>
    /\ UNCHANGED <<probeVars, appVars, chartVars>>

\* The process is killed (or the machine stops) wherever it is.
CliCrash ==
    /\ cliPc \in {"start", "captured", "marshalled", "opened"}
    /\ cliPc' = "crashed"
    /\ UNCHANGED <<file, now, cliDisks, cliHistory, cliData, fileBefore>>
    /\ UNCHANGED <<probeVars, appVars, chartVars>>

\* The next invocation of the program.
CliStart ==
    /\ cliPc \in {"exit0", "exit1", "crashed"}
    /\ now <= MaxCaptures
    /\ cliPc' = "start"
    /\ cliDisks' = <<>>
    /\ cliHistory' = NilPtr
    /\ cliData' = <<>>
    /\ fileBefore' = file
    /\ UNCHANGED <<file, now>>
    /\ UNCHANGED <<probeVars, appVars, chartVars>>

\* --------------------------------------------------------- renderChartView

\* Snapshots of a history drawn for the chart.
MaxSnaps == 4
\* Capture times, in hours: T, T+1h, T+13h, T+14h.
TimePoints == {0, 1, 13, 14}
TwelveHours == 12
\* The largest time.Duration (1<<63 - 1 ns), in hours: Time.Sub saturates.
MaxDurationHours == 2562047

ChartDrives == <<1, 2>>
ChartDiskLists == {<<AppDisk(1)>>, <<AppDisk(2)>>, <<AppDisk(1), AppDisk(2)>>}
ChartSnapshots ==
    {MakeSnapshot(t, ds) : t \in TimePoints, ds \in ChartDiskLists}
ChartHistories == UNION {[1..n -> ChartSnapshots] : n \in 0..MaxSnaps}

\* Nothing is written below the header: no caption, no stats block.
NoStats == [shown |-> FALSE]

\* const unit = 1024
Unit == 1024
\* A uint64 is seven digits to the base 1024, the lowest first, the highest
\* (bits 60..63) below 16.
NumDigits == 7
TopDigitSize == 16
UintZero == [i \in 1..NumDigits |-> 0]
UintUnit == [i \in 1..NumDigits |-> IF i = 2 THEN 1 ELSE 0]

\* No string yet.
NoText == [kind |-> "none"]

ChartIdle ==
    /\ dataPoints = <<>>
    /\ timeLabels = <<>>
    /\ stats = NoStats
    /\ bytesArg = UintZero
    /\ formatted = NoText
    /\ rendered = "no"

\* var lastTime time.Time, and a time assigned to it.
ZeroTime == [zero |-> TRUE]
TimeOf(t) == [zero |-> FALSE, t |-> t]
\* snapshot.Timestamp.Sub(lastTime), in hours.
Sub(t, last) == IF last.zero THEN MaxDurationHours ELSE t - last.t

\* "" and snapshot.Timestamp.Format("02.01 15:04").
BlankLabel == [blank |-> TRUE]
Format(t) == [blank |-> FALSE, day |-> 1 + (t \div 24), hour |-> t % 24]

\* Whether the loop labels the point of snapshot i (0-based) of n.
Labelled(i, n, t, last) ==
    i = 0 \/ i = n - 1 \/ Sub(t, last) > TwelveHours

\* The loop over m.history.Snapshots from index i (0-based) on, with the
\* locals as they are before iteration i.
RECURSIVE ChartLoop(_, _, _, _, _, _)
ChartLoop(snaps, i, drive, lastTime, pts, labels) ==
    IF i >= Len(snaps) THEN [dataPoints |-> pts, timeLabels |-> labels]
    ELSE LET snapshot == snaps[i + 1]
             k == FirstDisk(snapshot, drive) IN
         IF k = 0
         THEN ChartLoop(snaps, i + 1, drive, lastTime, pts, labels)
         ELSE LET pts2 == Append(pts, ToGB(snapshot.Disks[k].FreeSpace)) IN
              IF Labelled(i, Len(snaps), snapshot.Timestamp, lastTime)
              THEN ChartLoop(snaps, i + 1, drive,
                             TimeOf(snapshot.Timestamp), pts2,
                             Append(labels, Format(snapshot.Timestamp)))
              ELSE ChartLoop(snaps, i + 1, drive, lastTime, pts2,
                             Append(labels, BlankLabel))

\* float64 values are fractions num/den of a gigabyte; the byte counts of
\* the model are far below 2^53, where float64 arithmetic on them is exact.
FloatZero == [num |-> 0, den |-> GiB]
FloatSub(a, b) == [num |-> a.num - b.num, den |-> a.den]
FloatAdd(a, b) == [num |-> a.num + b.num, den |-> a.den]
FloatLess(a, b) == a.num < b.num
\* sum / float64(len(dataPoints)): the value num / (den * count).
FloatDiv(a, n) == [num |-> a.num, den |-> a.den, count |-> n]

\* The body of the stats loop on the value v.
StatsStepMaxAsMin(acc, v) ==
    [min |-> IF FloatLess(v, acc.min) THEN v ELSE acc.min,
     max |-> IF FloatLess(v, acc.max) THEN v ELSE acc.max,
     sum |-> FloatAdd(acc.sum, v)]
StatsStep(acc, v) ==
    [min |-> IF FloatLess(v, acc.min) THEN v ELSE acc.min,
     max |-> IF FloatLess(acc.max, v) THEN v ELSE acc.max,
     sum |-> FloatAdd(acc.sum, v)]

\* for _, v := range dataPoints, from index i (1-based) on.
RECURSIVE StatsLoop(_, _, _)
StatsLoop(pts, i, acc) ==
    IF i > Len(pts) THEN acc
    ELSE StatsLoop(pts, i + 1, StatsStep(acc, pts[i]))

\* What renderChartView writes about the series pts: the caption's Current
\* and (with more than one point) Change, and Min, Max, Avg, Range.
ChartStats(pts) ==
    IF ~(Len(pts) > 0) THEN NoStats
    ELSE LET acc == StatsLoop(pts, 1, [min |-> pts[1], max |-> pts[1],
                                       sum |-> FloatZero]) IN
            [shown |-> TRUE,
             caption |-> IF Len(pts) > 1
                         THEN <<pts[Len(pts)], FloatSub(pts[Len(pts)], pts[1])>>
                         ELSE <<pts[Len(pts)]>>,
             min |-> acc.min,
             max |-> acc.max,
             avg |-> FloatDiv(acc.sum, Len(pts)),
             range |-> FloatSub(acc.max, acc.min)]

\* renderChartView, up to the series, the labels and the numbers it draws.
RenderChartView ==
    /\ rendered = "no"
    /\ IF Len(m.history.val) < 2
       THEN /\ rendered' = "notEnoughData"
            /\ UNCHANGED <<dataPoints, timeLabels, stats>>
       ELSE /\ rendered' = "chart"
            /\ IF m.selectedDisk >= 0 /\ m.selectedDisk < Len(drives)
               THEN LET out == ChartLoop(m.history.val, 0,
                                         drives[m.selectedDisk + 1],
                                         ZeroTime, <<>>, <<>>) IN
                       /\ dataPoints' = out.dataPoints
                       /\ timeLabels' = out.timeLabels
                       /\ stats' = ChartStats(out.dataPoints)
               ELSE UNCHANGED <<dataPoints, timeLabels, stats>>
    /\ UNCHANGED <<bytesArg, formatted>>
    /\ UNCHANGED <<probeVars, file, now, appVars, stepVars>>

\* ------------------------------------------------------------- formatBytes

\* x >= unit, x > unit (the loop's test), x / unit and x * unit on uint64.
GtUnit(x) ==
    \/ \E i \in 3..NumDigits : x[i] # 0
    \/ x[2] > 1
    \/ x[2] = 1 /\ x[1] > 0
GeUnit(x) == \E i \in 2..NumDigits : x[i] # 0
DivUnit(x) == [i \in 1..NumDigits |-> IF i < NumDigits THEN x[i + 1] ELSE 0]
MulUnit(x) ==
    [i \in 1..NumDigits |->
        IF i = 1 THEN 0
        ELSE IF i = NumDigits THEN x[i - 1] % TopDigitSize
        ELSE x[i - 1]]

\* for n := bytes / unit; n >= unit; n /= unit { div *= unit; exp++ }
RECURSIVE FormatLoop(_, _, _)
FormatLoop(n, div, exp) ==
    IF ~GeUnit(n) THEN [div |-> div, exp |-> exp]
    ELSE FormatLoop(DivUnit(n), MulUnit(div), exp + 1)

\* "KMGTPE"
UnitLetters == <<"K", "M", "G", "T", "P", "E">>

\* digits * c + carry, digit by digit from the lowest.
RECURSIVE MulSmall(_, _, _)
MulSmall(ds, c, carry) ==
    IF ds = <<>> THEN [digits |-> <<>>, carry |-> carry]
    ELSE LET v == Head(ds) * c + carry
             rest == MulSmall(Tail(ds), c, v \div Unit) IN
            [digits |-> <<v % Unit>> \o rest.digits, carry |-> rest.carry]

\* The number of the digits ds, the lowest first.
RECURSIVE DigitsValue(_)
DigitsValue(ds) ==
    IF ds = <<>> THEN 0 ELSE Head(ds) + Unit * DigitsValue(Tail(ds))

\* fmt's %.1f of float64(bytes)/float64(div) for div = unit^j: the quotient
\* rounded to one decimal, halves to the even digit (computed on the exact
\* quotient).
OneDecimal(x, j) ==
    LET whole == DigitsValue(SubSeq(x, j + 1, NumDigits))
        prod == MulSmall(SubSeq(x, 1, j), 20, 0)
        sticky == \E i \in 1..j : prod.digits[i] # 0
        down == prod.carry \div 2
        up == prod.carry % 2 = 1 /\ (sticky \/ down % 2 = 1)
        tenths == IF up THEN down + 1 ELSE down IN
       IF tenths = 10 THEN [whole |-> whole + 1, tenths |-> 0]
       ELSE [whole |-> whole, tenths |-> tenths]

\* formatBytes: the string as its parts, or the panic of an index out of
\* range, or the text of a division by a divisor that wrapped to 0.
formatBytes(x) ==
    IF ~GeUnit(x) THEN [kind |-> "B", whole |-> x[1]]
    ELSE LET r == FormatLoop(DivUnit(x), UintUnit, 0) IN
         IF r.exp >= Len(UnitLetters) THEN [kind |-> "panic"]
         ELSE IF r.div = UintZero THEN [kind |-> "+Inf"]
         ELSE LET j == CHOOSE i \in 1..(NumDigits - 1) : r.div[i + 1] # 0
                  q == OneDecimal(x, j) IN
                 [kind |-> "scaled", whole |-> q.whole, tenths |-> q.tenths,
                  letter |-> UnitLetters[r.exp + 1]]

\* A call of formatBytes (renderCurrentView's, for the sizes of a disk).
FormatBytes ==
    /\ formatted = NoText
    /\ formatted' = formatBytes(bytesArg)
    /\ UNCHANGED <<dataPoints, timeLabels, stats, bytesArg, rendered>>
    /\ UNCHANGED <<probeVars, file, now, appVars, stepVars>>

\* ---------------------------------------------------------- specifications

ProbeSpecInit ==
    /\ ProbeInit
    /\ file = AbsentFile
    /\ now = 1
    /\ AppIdle
    /\ StepIdle
    /\ ChartIdle

\* getAllDisksInfo: the probes of one capture, goroutine by goroutine.
SpecProbe == ProbeSpecInit /\ [][ProbeNext]_vars

\* The same under Go's scheduling: a goroutine that can run does run, and
\* every timer of time.After fires, so a select does not wait forever. The
\* probe primitive itself may never return.
ProbeFairness ==
    /\ \A d \in 1..MaxDrives :
          /\ WF_vars(d \in Range(drives)
                        /\ (SelectDone(d) \/ SelectTimeout(d)))
          /\ WF_vars(d \in Range(drives) /\ WorkerSendFirst(d))
          /\ WF_vars(d \in Range(drives) /\ WorkerSendSecond(d))
    /\ WF_vars(CollectRecvResults)
    /\ WF_vars(CollectRecvErrors)
    /\ WF_vars(CollectReturn)
SpecProbeFair == ProbeSpecInit /\ [][ProbeNext]_vars /\ ProbeFairness

Init ==
    /\ ProbeIdle
    /\ file \in InitialFiles
    /\ now = 1
    /\ AppIdle
    /\ StepIdle
    /\ ChartIdle

Next ==
    \/ NewModel
    \/ KeyQuit
    \/ KeyTab
    \/ KeyUp
    \/ KeyDown
    \/ KeyR
    \/ WindowSizeMsg
    \/ DiskInfoMsg
    \/ View
    \/ CollectAndSave

\* One dashboard session and the CLI runs around it, on one history file.
Spec == Init /\ [][Next]_vars

StepInit ==
    /\ ProbeIdle
    /\ file \in InitialFiles
    /\ now = 1
    /\ AppIdle
    /\ cliPc = "start"
    /\ cliDisks = <<>>
    /\ cliHistory = NilPtr
    /\ cliData = <<>>
    /\ fileBefore = file
    /\ ChartIdle

StepNext ==
    \/ CliCapture
    \/ CliLoad
    \/ WriteFileOpen
    \/ WriteFileWrite
    \/ WriteFileClose
    \/ CliCrash
    \/ CliStart

\* CLI runs one after the other, each stopped anywhere by a crash.
SpecStep == StepInit /\ [][StepNext]_vars

ChartInit ==
    /\ drives = ChartDrives
    /\ probePc = <<>>
    /\ result = <<>>
    /\ resultErr = <<>>
    /\ workerPc = <<>>
    /\ ret = <<>>
    /\ results = <<>>
    /\ errors = <<>>
    /\ collPc = "returned"
    /\ collIter = 0
    /\ collInfo = NilPtr
    /\ disks = <<>>
    /\ stderr = <<>>
    /\ file = AbsentFile
    /\ now = 1
    /\ dashPc = "running"
    /\ \E h \in ChartHistories, sel \in 0..Len(ChartDrives) :
          m = [ZeroModel EXCEPT !.history = Ptr(h),
                                !.currentView = "chart",
                                !.selectedDisk = sel]
    /\ inFlight = 0
    /\ cliExit = -1
    /\ StepIdle
    /\ ChartIdle

ChartNext == RenderChartView

\* renderChartView on every history and selection.
SpecChart == ChartInit /\ [][ChartNext]_vars

\* The uint64s formatBytes is called on: every digit 0, 1, half a unit or
\* the largest, the highest digit up to its largest, with 1<<64 - 1.
FormatDigits == {0, 1, 512, 1023}
FormatTopDigits == {0, 1, 15}
FormatInputs ==
    {[i \in 1..NumDigits |-> IF i = NumDigits THEN top ELSE low[i]] :
        low \in [1..(NumDigits - 1) -> FormatDigits],
        top \in FormatTopDigits}

FormatInit ==
    /\ ProbeIdle
    /\ file = AbsentFile
    /\ now = 1
    /\ AppIdle
    /\ StepIdle
    /\ dataPoints = <<>>
    /\ timeLabels = <<>>
    /\ stats = NoStats
    /\ bytesArg \in FormatInputs
    /\ formatted = NoText
    /\ rendered = "no"

FormatNext == FormatBytes

\* formatBytes on unsigned 64-bit numbers of every magnitude.
SpecFormat == FormatInit /\ [][FormatNext]_vars

\* Histories whose series show their order: the free space differs from
\* snapshot to snapshot, timestamps repeat and go backwards, a snapshot
\* lacks drive 1, has it second, has it twice.
SeriesDisk(d, free) == MakeDiskInfo(d, 2, free)
SeriesSnapshots ==
    {MakeSnapshot(1, <<SeriesDisk(1, 1)>>),
     MakeSnapshot(0, <<SeriesDisk(1, 0)>>),
     MakeSnapshot(1, <<SeriesDisk(1, 2)>>),
     MakeSnapshot(0, <<SeriesDisk(2, 0)>>),
     MakeSnapshot(1, <<SeriesDisk(2, 1), SeriesDisk(1, 0)>>),
     MakeSnapshot(0, <<SeriesDisk(1, 2), SeriesDisk(1, 0)>>)}
SeriesHistories == UNION {[1..n -> SeriesSnapshots] : n \in 0..MaxSnaps}

SeriesInit ==
    /\ drives = ChartDrives
    /\ probePc = <<>>
    /\ result = <<>>
    /\ resultErr = <<>>
    /\ workerPc = <<>>
    /\ ret = <<>>
    /\ results = <<>>
    /\ errors = <<>>
    /\ collPc = "returned"
    /\ collIter = 0
    /\ collInfo = NilPtr
    /\ disks = <<>>
    /\ stderr = <<>>
    /\ file = AbsentFile
    /\ now = 1
    /\ dashPc = "running"
    /\ \E h \in SeriesHistories, sel \in 0..Len(ChartDrives) :
          m = [ZeroModel EXCEPT !.history = Ptr(h),
                                !.currentView = "chart",
                                !.selectedDisk = sel]
    /\ inFlight = 0
    /\ cliExit = -1
    /\ StepIdle
    /\ ChartIdle

SeriesNext ==
    \/ RenderChartView
    \/ WindowSizeMsg

\* The two series extractions, updateChart (on a window size message) and
\* renderChartView, on every history and selection.
SpecSeries == SeriesInit /\ [][SeriesNext]_vars

\* ------------------------------------------------------------- properties

DiskDrives(ds) == {ds[i].Drive : i \in 1..Len(ds)}

\* C1: getAllDisksInfo returns exactly the volumes whose own probe
\* succeeded (getDiskSpace returned a nil error), one entry each, whatever
\* the other volumes' probes did and however the sends interleave.
C1_ReturnsExactlySucceeded ==
    collPc = "returned" =>
       /\ DiskDrives(disks) = {d \in Range(drives) : ret[d].err.nil}
       /\ Len(disks) = Cardinality(DiskDrives(disks))

\* C2: every entry of the list getAllDisksInfo builds is the DiskInfo of an
\* enumerated volume whose own probe reported success and whose select took
\* the done case (the probe goroutine's send was received), and no volume
\* is in the list twice.
C2_OnlyOwnSuccesses ==
    /\ \A i \in 1..Len(disks) :
          /\ disks[i].Drive \in Range(drives)
          /\ probePc[disks[i].Drive] = "exit"
          /\ ~result[disks[i].Drive].nil
          /\ resultErr[disks[i].Drive].nil
          /\ disks[i] = result[disks[i].Drive].val
    /\ \A i, j \in 1..Len(disks) :
          i # j => disks[i].Drive # disks[j].Drive

\* A capture has returned a volume while another volume's probe succeeded
\* only after its timeout had been taken.
C2_Witness ==
    /\ collPc = "returned"
    /\ disks # <<>>
    /\ \E d \in Range(drives) :
          /\ probePc[d] = "send"
          /\ ~result[d].nil
          /\ ~ret[d].err.nil
          /\ ret[d].err.kind = "timeout"

\* C9: every disk of a capture has free <= total and used = total - free
\* without wrap-around.
C9_FreeWithinTotal ==
    \A i \in 1..Len(disks) :
       /\ disks[i].FreeSpace <= disks[i].TotalSpace
       /\ disks[i].UsedSpace = disks[i].TotalSpace - disks[i].FreeSpace

\* The snapshots held by a history pointer (none behind nil).
Snaps(h) == IF h.nil THEN <<>> ELSE h.val

\* Every snapshot document in the bytes of the file.
FileSnapshots(f) ==
    {DecodeSnapshot(f.data[i].snap) :
        i \in {j \in 1..Len(f.data) : f.data[j].kind = "snap"}}

\* The step is Update handling a diskInfoMsg.
DashCaptureStep == inFlight' = inFlight - 1 /\ dashPc' # "quit"
\* The step is a run of the CLI: no other step that changes the state
\* leaves the whole dashboard as it was.
CliStep == UNCHANGED <<dashPc, m, inFlight>>
\* The capture of the step returned no disks: time.Now() was not called.
EmptyCapture == now' = now
\* The captures that return disks.
NonEmptyCaptures == CaptureResults \ {<<>>}

\* C3: a capture that returns no disks ends with "no drives found" (the
\* model's error, the CLI's exit code 1), appends nothing to the history and
\* leaves the file as it was, in Update's diskInfoMsg case, in collectAndSave
\* and in collectData; no snapshot without disks is in the history or in
\* the file.
C3_EmptyCaptureAppendsNothing ==
    /\ [](/\ \A i \in 1..Len(Snaps(m.history)) :
                Snaps(m.history)[i].Disks # <<>>
          /\ \A s \in FileSnapshots(file) : s.Disks # <<>>
          /\ \A out \in saveHistory(file, Snaps(m.history)) :
                LET r == collectData(m, file, <<>>, now, out) IN
                   /\ r.m.history = m.history
                   /\ r.file = file
                   /\ r.m.err = NoDrivesFound)
    /\ [][(DashCaptureStep /\ EmptyCapture) =>
             /\ file' = file
             /\ m'.history = m.history
             /\ m'.err = NoDrivesFound
             /\ ~m'.loading]_vars
    /\ [][(CliStep /\ EmptyCapture) =>
             /\ file' = file
             /\ cliExit' = 1]_vars

\* The dashboard has handled an empty capture: the error is set and the
\* history it holds is the one it had.
C3_Witness ==
    /\ dashPc = "running"
    /\ ~m.loading
    /\ m.err = NoDrivesFound
    /\ Len(Snaps(m.history)) >= 1

\* C4: a dashboard capture that persists leaves the file holding what
\* loadHistory found in it just before, with the new snapshot appended.
C4_CycleExtendsTheFile ==
    [][(/\ DashCaptureStep
        /\ ~EmptyCapture
        /\ dashPc' = "running"
        /\ loadHistory(file).err.nil
        /\ file' # file
        /\ loadHistory(file').err.nil)
       => \E ds \in NonEmptyCaptures :
             Snaps(loadHistory(file').history) =
                Append(Snaps(loadHistory(file).history),
                       MakeSnapshot(now, ds))]_vars

\* C5: the dashboard session never ends in a panic, whatever the history
\* file held when NewModel loaded it.
C5_SessionNeverPanics == dashPc # "panicked"

\* C6: after a crash during a CLI cycle the file is what it was before the
\* cycle or the complete new document.
C6_CrashLeavesOldOrNew ==
    cliPc = "crashed" =>
       \/ file = fileBefore
       \/ cliData # <<>> /\ file.exists /\ file.data = cliData

IsPrefix(s, t) == Len(s) <= Len(t) /\ SubSeq(t, 1, Len(s)) = s

\* C8: until the dashboard quits, every step leaves the snapshots it held as
\* a prefix of those it holds, a capture that returned disks adds exactly
\* its snapshot at the end and no other step adds any; a CLI run that saves
\* writes what it loaded with its snapshot at the end.
C8_HistoryAppendOnly ==
    /\ [][(dashPc = "running" /\ dashPc' # "quit") =>
             /\ IsPrefix(Snaps(m.history), Snaps(m'.history))
             /\ IF DashCaptureStep /\ ~EmptyCapture /\ dashPc' = "running"
                THEN \E ds \in NonEmptyCaptures :
                        Snaps(m'.history) =
                           Append(Snaps(m.history), MakeSnapshot(now, ds))
                ELSE m'.history = m.history]_vars
    /\ [][(CliStep /\ ~EmptyCapture /\ cliExit' = 0) =>
             \E ds \in NonEmptyCaptures :
                Unmarshal(file'.data).snaps =
                   Append(Snaps(loadHistory(file).history),
                          MakeSnapshot(now, ds))]_vars

\* The dashboard holds two snapshots of its own captures (no file was
\* ever written), and updateChart has built the graphs from them.
C8_Witness ==
    /\ dashPc = "running"
    /\ ~file.exists
    /\ Len(Snaps(m.history)) >= 2
    /\ m.graphs # <<>>

\* The capture times of the series points of a drive, in storage order.
RECURSIVE PointTimes(_, _)
PointTimes(snaps, drive) ==
    IF snaps = <<>> THEN <<>>
    ELSE IF FirstDisk(Head(snaps), drive) = 0
         THEN PointTimes(Tail(snaps), drive)
         ELSE <<Head(snaps).Timestamp>> \o PointTimes(Tail(snaps), drive)

\* The label track the rule gives for points at these times: a label at
\* the first point, at the last point and at every point more than twelve
\* hours after the previously labelled one (last: its time), blank elsewhere.
RECURSIVE RuleLabels(_, _, _)
RuleLabels(times, p, last) ==
    IF p > Len(times) THEN <<>>
    ELSE IF p = 1 \/ p = Len(times) \/ times[p] - last > TwelveHours
         THEN <<Format(times[p])>> \o RuleLabels(times, p + 1, times[p])
         ELSE <<BlankLabel>> \o RuleLabels(times, p + 1, last)

\* C10: the label track of a rendered chart is the one the rule gives for
\* the series points of the selected volume.
C10_LabelsFirstLastAndGaps ==
    (rendered = "chart" /\ m.selectedDisk < Len(drives)) =>
       timeLabels = RuleLabels(PointTimes(m.history.val,
                                          drives[m.selectedDisk + 1]), 1, 0)

\* The snapshots (by index) that contain the drive.
ContainingSnaps(snaps, drive) ==
    {i \in 1..Len(snaps) :
        \E k \in 1..Len(snaps[i].Disks) : snaps[i].Disks[k].Drive = drive}

\* The j-th smallest element of a set of numbers.
NthOf(S, j) == CHOOSE i \in S : Cardinality({k \in S : k <= i}) = j

\* pts has one point per snapshot containing the drive, in storage order,
\* each the free space (in GB) of an entry of that drive in its snapshot.
IsSeriesOf(pts, snaps, drive) ==
    /\ Len(pts) = Cardinality(ContainingSnaps(snaps, drive))
    /\ \A j \in 1..Len(pts) :
          LET s == snaps[NthOf(ContainingSnaps(snaps, drive), j)] IN
             \E k \in 1..Len(s.Disks) :
                /\ s.Disks[k].Drive = drive
                /\ pts[j] = [num |-> s.Disks[k].FreeSpace, den |-> GiB]

\* C11: the series renderChartView draws for the selected volume, and the
\* series updateChart stores for every volume, have exactly one point per
\* snapshot containing the volume, in storage order whatever the timestamps
\* are; the label track is as long as the series.
C11_SeriesInStorageOrder ==
    /\ (rendered = "chart" /\ m.selectedDisk < Len(drives)) =>
          /\ IsSeriesOf(dataPoints, m.history.val, drives[m.selectedDisk + 1])
          /\ Len(timeLabels) = Len(dataPoints)
    /\ (m.width # 0 /\ Len(m.history.val) >= 2) =>
          /\ DOMAIN m.graphs =
                {d \in Range(ChartDrives) :
                    ContainingSnaps(m.history.val, d) # {}}
          /\ \A d \in DOMAIN m.graphs :
                IsSeriesOf(m.graphs[d], m.history.val, d)

\* A chart drawn from a history with a later snapshot older than an
\* earlier one and a snapshot without the selected volume: fewer points
\* than snapshots, not in the order of time.
C11_Witness ==
    /\ rendered = "chart"
    /\ m.selectedDisk = 0
    /\ m.width # 0
    /\ Len(dataPoints) >= 2
    /\ Len(dataPoints) < Len(m.history.val)
    /\ \E i, j \in 1..Len(m.history.val) :
          /\ i < j
          /\ m.history.val[i].Timestamp > m.history.val[j].Timestamp
    /\ dataPoints[1].num > dataPoints[Len(dataPoints)].num

\* C12: with fewer than two snapshots in the history, whatever volume is
\* selected, renderChartView shows the not-enough-data message and draws
\* no series, labels or stats, updateChart leaves the graphs as they were
\* (none), and the model records no error.
C12_FewerThanTwoIsInsufficient ==
    Len(m.history.val) < 2 =>
       /\ rendered \in {"no", "notEnoughData"}
       /\ dataPoints = <<>>
       /\ timeLabels = <<>>
       /\ stats = NoStats
       /\ m.graphs = <<>>
       /\ m.err = NoErr
       /\ dashPc = "running"

\* A history of one snapshot has been rendered after updateChart ran on it.
C12_Witness ==
    /\ Len(m.history.val) = 1
    /\ m.width # 0
    /\ rendered = "notEnoughData"

RECURSIVE SumNums(_)
SumNums(pts) == IF pts = <<>> THEN 0 ELSE Head(pts).num + SumNums(Tail(pts))

\* Min is the smallest value, Max the largest, Avg the mean of all values
\* and Range is Max - Min.
MinMaxAvgRange ==
    /\ stats.shown
    /\ stats.min \in Range(dataPoints)
    /\ \A i \in 1..Len(dataPoints) : stats.min.num <= dataPoints[i].num
    /\ stats.max \in Range(dataPoints)
    /\ \A i \in 1..Len(dataPoints) : stats.max.num >= dataPoints[i].num
    /\ stats.avg = [num |-> SumNums(dataPoints), den |-> GiB,
                    count |-> Len(dataPoints)]
    /\ stats.range = [num |-> stats.max.num - stats.min.num, den |-> GiB]

\* The change last - first of the series.
LastMinusFirst ==
    [num |-> dataPoints[Len(dataPoints)].num - dataPoints[1].num, den |-> GiB]

\* C17 as stated: every non-empty series is drawn with min, max, average,
\* range and the change last - first.
C17_StatsOfEveryNonEmptySeries ==
    (rendered = "chart" /\ dataPoints # <<>>) =>
       /\ MinMaxAvgRange
       /\ Len(stats.caption) = 2
       /\ stats.caption[2] = LastMinusFirst

\* C17, amended: every non-empty series is drawn with min, max, average and
\* range; a series of two or more points with the change last - first, a
\* series of one point with no change.
C17_StatsChangeFromTwoPoints ==
    (rendered = "chart" /\ dataPoints # <<>>) =>
       /\ MinMaxAvgRange
       /\ stats.caption[1] = dataPoints[Len(dataPoints)]
       /\ IF Len(dataPoints) > 1
          THEN Len(stats.caption) = 2 /\ stats.caption[2] = LastMinusFirst
          ELSE Len(stats.caption) = 1

\* The stats of a series like [100, 80, 90]: the largest value first, the
\* smallest second, a negative change.
C17_Witness ==
    /\ rendered = "chart"
    /\ Len(dataPoints) = 3
    /\ dataPoints[1].num = 2
    /\ dataPoints[2].num = 0
    /\ dataPoints[3].num = 1
    /\ stats.min.num = 0
    /\ stats.max.num = 2
    /\ stats.avg.num = 3
    /\ stats.caption[2].num = -1

\* Snapshots to append: at times before and after midnight, of one and of
\* two disks whose total, free and used space all differ.
RoundTripSnapshots ==
    {MakeSnapshot(t, ds) :
        t \in {0, 13, 25, 49},
        ds \in {<<SeriesDisk(1, 0)>>, <<SeriesDisk(2, 1), SeriesDisk(1, 0)>>}}

Failing == {d \in Range(drives) : ~ret[d].err.nil}

\* C14: when getAllDisksInfo returns, the messages it printed are exactly
\* one per volume whose probe failed or timed out, each that volume's own
\* error, and none for a volume whose probe succeeded, however the sends
\* interleaved; at no time is there a message for a volume that did not
\* fail, and a capture that returns a volume is not an empty capture.
C14_OneMessagePerFailure ==
    /\ \A i \in 1..Len(stderr) :
          /\ ~stderr[i].nil
          /\ stderr[i].drive \in Failing
          /\ stderr[i] = ret[stderr[i].drive].err
    /\ \A i, j \in 1..Len(stderr) :
          i # j => stderr[i].drive # stderr[j].drive
    /\ collPc = "returned" =>
          /\ Len(stderr) = Cardinality(Failing)
          /\ {stderr[i].drive : i \in 1..Len(stderr)} = Failing
          /\ disks # <<>> => ~NoDrives(disks)

\* A capture of two volumes has returned one of them and printed the
\* failure of the other.
C14_Witness ==
    /\ collPc = "returned"
    /\ Len(drives) = 2
    /\ Len(disks) = 1
    /\ Len(stderr) = 1
    /\ stderr[1].drive # disks[1].Drive

\* C15: getAllDisksInfo always returns, and when it has, every probe task
\* has got its outcome and finished both its sends, and both channels are
\* drained: no task and not the collector is left blocked, for any number
\* of drives and whichever probes fail or hang.
C15_AlwaysReturnsAfterAllTasks ==
    /\ <>(collPc = "returned")
    /\ [](collPc = "returned" =>
             /\ \A d \in Range(drives) : workerPc[d] = "done"
             /\ results = <<>>
             /\ errors = <<>>)
    /\ [](\A d \in Range(drives) :
             /\ workerPc[d] = "sendFirst" =>
                   HasRoom(IF ret[d].err.nil THEN results ELSE errors)
             /\ workerPc[d] = "sendSecond" =>
                   HasRoom(IF ret[d].err.nil THEN errors ELSE results))

\* getAllDisksInfo has returned while the primitive of a probe is still
\* hanging: that task ended by its timeout.
C15_Witness ==
    /\ collPc = "returned"
    /\ Len(drives) = 2
    /\ \E d \in Range(drives) :
          /\ probePc[d] = "call"
          /\ workerPc[d] = "done"
          /\ ret[d].err = Err("timeout", d)

\* The goroutine getDiskSpace started for drive d is at pc.
ProbeAt(d, pc) == IF d \in Range(drives) THEN probePc[d] = pc ELSE FALSE

\* C20: a goroutine of getDiskSpace whose primitive has returned (it is at
\* done <- true) eventually ends, also when the select took the timeout.
C20_ProbeGoroutineEnds ==
    \A d \in 1..MaxDrives : ProbeAt(d, "send") ~> ProbeAt(d, "exit")

\* What saveHistory's os.WriteFile leaves when it fails: not the document
\* of the history it was given.
SaveFailed(f, h) == ~(f.exists /\ f.data = Marshal(Snaps(h)))

\* The graphs hold, for every drive of the history, one point per snapshot
\* containing it.
GraphsBuiltFrom(graphs, snaps) ==
    /\ DOMAIN graphs = {d \in AppDrives : ContainingSnaps(snaps, d) # {}}
    /\ \A d \in DOMAIN graphs : IsSeriesOf(graphs[d], snaps, d)

\* C16: a dashboard capture with disks whose saveHistory fails still ends
\* with its snapshot at the end of the history in memory, loading over,
\* the graphs rebuilt from that history (once it has two snapshots) and
\* saveHistory's error in the model's err.
C16_FailedSaveStillReported ==
    [][(/\ DashCaptureStep
        /\ ~EmptyCapture
        /\ dashPc' = "running"
        /\ SaveFailed(file', m'.history))
       => /\ \E ds \in NonEmptyCaptures :
                Snaps(m'.history) =
                   Append(Snaps(m.history), MakeSnapshot(now, ds))
          /\ ~m'.loading
          /\ m'.err \in {Err("open", 0), Err("write", 0)}
          /\ Len(Snaps(m'.history)) >= 2 =>
                GraphsBuiltFrom(m'.graphs, Snaps(m'.history))]_vars

\* The dashboard shows two snapshots of its own and a write error, over a
\* file that holds neither.
C16_Witness ==
    /\ dashPc = "running"
    /\ ~m.loading
    /\ m.err = Err("write", 0)
    /\ Len(Snaps(m.history)) >= 2
    /\ m.graphs # <<>>
    /\ SaveFailed(file, m.history)

\* C19: loading is true exactly while one collectDataCmd is outstanding
\* and never more than one is; while loading, tab, up, down and r change
\* nothing of the model (a resize, its width and height only) and start no
\* command; a command is started only when not loading, one at a time,
\* and sets loading; every diskInfoMsg ends with loading false.
C19_LoadingIffOneCaptureInFlight ==
    /\ []((m.loading <=> inFlight = 1) /\ inFlight \in {0, 1})
    /\ [][(dashPc = "running" /\ m.loading /\ inFlight' = inFlight
             /\ dashPc' # "quit")
          => [m' EXCEPT !.width = m.width, !.height = m.height] = m]_vars
    /\ [][(dashPc = "running" /\ inFlight' > inFlight)
          => (~m.loading /\ inFlight' = inFlight + 1 /\ m'.loading)]_vars
    /\ [][DashCaptureStep => ~m'.loading]_vars

\* The index k with 1024^k <= x < 1024^(k+1), for x >= 1024: the place of
\* the highest digit that is not 0, counted from 0.
Magnitude(x) ==
    (CHOOSE i \in 1..NumDigits :
        x[i] # 0 /\ \A j \in (i + 1)..NumDigits : x[j] = 0) - 1

\* Twenty times x / 1024^k, rounded down, and whether that was exact.
Twentieths(x, k) ==
    LET prod == MulSmall(SubSeq(x, 1, k), 20, 0) IN
       [floor |-> 20 * x[k + 1] + prod.carry,
        exact |-> \A i \in 1..k : prod.digits[i] = 0]

\* C18: formatBytes gives the integer and " B" below 1024, and from 1024
\* on the unit of K, M, G, T, P, E with index k, 1024^k <= n < 1024^(k+1),
\* and n / 1024^k to one fractional digit (within half a tenth); for every
\* n up to 1<<64 - 1 the index is within the letters and the divisor has
\* not wrapped around.
C18_FormatBytesUnits ==
    formatted # NoText =>
       IF \A i \in 2..NumDigits : bytesArg[i] = 0
       THEN formatted = [kind |-> "B", whole |-> bytesArg[1]]
       ELSE LET k == Magnitude(bytesArg)
                t == Twentieths(bytesArg, k)
                shown == 20 * formatted.whole + 2 * formatted.tenths IN
               /\ formatted.kind = "scaled"
               /\ k \in 1..6
               /\ formatted.letter = <<"K", "M", "G", "T", "P", "E">>[k]
               /\ formatted.tenths \in 0..9
               /\ shown - 1 <= t.floor
               /\ t.floor < shown + 1 \/ (t.floor = shown + 1 /\ t.exact)

\* The examples: 0 -> "0 B", 1023 -> "1023 B", 1024 -> "1.0 KB",
\* 1536 -> "1.5 KB"; and 1<<64 - 1 -> "16.0 EB".
FormatExamples ==
    /\ formatBytes(UintZero) = [kind |-> "B", whole |-> 0]
    /\ formatBytes([UintZero EXCEPT ![1] = 1023]) =
          [kind |-> "B", whole |-> 1023]
    /\ formatBytes(UintUnit) =
          [kind |-> "scaled", whole |-> 1, tenths |-> 0, letter |-> "K"]
    /\ formatBytes([UintUnit EXCEPT ![1] = 512]) =
          [kind |-> "scaled", whole |-> 1, tenths |-> 5, letter |-> "K"]
    /\ formatBytes([i \in 1..NumDigits |->
                       IF i = NumDigits THEN 15 ELSE 1023]) =
          [kind |-> "scaled", whole |-> 16, tenths |-> 0, letter |-> "E"]

\* The largest uint64 has been formatted, in the last unit.
C18_Witness ==
    /\ bytesArg = [i \in 1..NumDigits |-> IF i = NumDigits THEN 15 ELSE 1023]
    /\ formatted.kind = "scaled"
    /\ formatted.letter = "E"
    /\ FormatExamples

\* C21: once the model holds an error, every later step of the session
\* (keys, resizes, refreshes, captures with and without disks, saves that
\* fail and saves that succeed) leaves it holding an error, the same one
\* unless the step is a capture that found no disks or whose save failed,
\* and every frame View draws of a model that is not loading has the
\* error line.
C21_ErrorStaysSet ==
    /\ [][(dashPc = "running" /\ ~m.err.nil /\ dashPc' # "quit")
          => /\ ~m'.err.nil
             /\ ~(DashCaptureStep
                   /\ (EmptyCapture \/ SaveFailed(file', m'.history)))
                   => m'.err = m.err
             /\ ~m'.loading => ViewShowsError(m')]_vars
    /\ [](dashPc = "running" /\ ~m.loading
             => (ViewShowsError(m) <=> ~m.err.nil))

\* The dashboard still shows the write error of an earlier capture after a
\* refresh whose capture and save succeeded: the file is the document of
\* the whole history in memory.
C21_Witness ==
    /\ dashPc = "running"
    /\ m.err = Err("write", 0)
    /\ ViewShowsError(m)
    /\ Len(Snaps(m.history)) >= 2
    /\ ~SaveFailed(file, m.history)

=============================================================================
